---- MODULE Spec2Model ----
(***************************************************************************)
(* Model of the batch delivery engine of wechat-bot:                       *)
(*   src/wechat_bot/batch_sender.py  BatchMessageSender                    *)
(*   src/wechat_bot/wechat.py        WeChatMac (the messaging collaborator)*)
(*                                                                         *)
(* A YAML document is a Python value.  Values are tagged records, so that  *)
(* the operations the code applies to them (key in x, x[key], x.items(),   *)
(* isinstance(x, list), truthiness) can be modelled with the outcome       *)
(* Python gives for each kind of value, a raised exception included.       *)
(***************************************************************************)
EXTENDS Integers, Sequences, FiniteSets, TLC

(***************************************************************************)
(* Bounds of the model.                                                    *)
(***************************************************************************)
MaxTags == 2        \* longest tag list handed to tags_match on its own
MaxGroups == 2      \* most groups in a configuration
MaxMessages == 2    \* most messages in a configuration
MaxRecipients == 2  \* longest recipient list handed to the collaborator on its own

(***************************************************************************)
(* Python values.                                                          *)
(***************************************************************************)
None == [k |-> "none"]
Str(s) == [k |-> "str", s |-> s]
List(l) == [k |-> "list", l |-> l]
\* A dict keeps insertion order: items is the sequence of <<key, value>>.
Dict(items) == [k |-> "dict", items |-> items]

Range(s) == {s[i] : i \in 1..Len(s)}
SeqsUpTo(S, n) == UNION {[1..m -> S] : m \in 0..n}

Keys(d) == {d.items[i][1] : i \in 1..Len(d.items)}
Get(d, key) == d.items[CHOOSE i \in 1..Len(d.items) : d.items[i][1] = key][2]
\* dict.get(key, default)
GetOr(d, key, default) == IF key \in Keys(d) THEN Get(d, key) ELSE default

\* bool(x) / `not x`
Truthy(v) ==
    CASE v.k = "none" -> FALSE
      [] v.k = "str"  -> v.s # ""
      [] v.k = "list" -> Len(v.l) > 0
      [] v.k = "dict" -> Len(v.items) > 0

\* `key in x` raises TypeError when x is None.
CanContain(v) == v.k # "none"
\* `key in x`: dict membership, list element, substring of a str.  The str
\* values of the model are atoms none of which properly contains a key, so
\* the substring test is equality.
Contains(key, v) ==
    CASE v.k = "dict" -> key \in Keys(v)
      [] v.k = "list" -> \E i \in 1..Len(v.l) : v.l[i] = Str(key)
      [] v.k = "str"  -> v.s = key
      [] v.k = "none" -> FALSE
\* x[key] with a str key is defined on a dict holding the key only.
CanSubscript(v, key) == v.k = "dict" /\ key \in Keys(v)
\* x.items() exists on a dict only (AttributeError otherwise).
HasItems(v) == v.k = "dict"
IsList(v) == v.k = "list"

\* The three outcomes of a validator call.
RTrue == "True"
RFalse == "False"
Raised == "raise"

\* all(key in x for key in keys)
AllKeysIn(keys, v) ==
    IF ~CanContain(v) THEN Raised
    ELSE IF \A key \in Range(keys) : Contains(key, v) THEN RTrue ELSE RFalse

\* The outcome of the first element of `outs` that is not True, else True:
\* a loop that returns or raises at the first failing entry.
FirstFailure(outs) ==
    IF \A i \in 1..Len(outs) : outs[i] = RTrue THEN RTrue
    ELSE outs[CHOOSE i \in 1..Len(outs) :
                 /\ outs[i] # RTrue
                 /\ \A j \in 1..(i - 1) : outs[j] = RTrue]

(***************************************************************************)
(* BatchMessageSender.validate_message                                     *)
(***************************************************************************)
validate_message(message) ==
    IF ~CanContain(message) THEN Raised
    ELSE IF ~Contains("type", message) THEN RFalse
    ELSE IF ~CanSubscript(message, "type") THEN Raised
    ELSE LET type == Get(message, "type") IN
         IF type \notin {Str("text"), Str("image")} THEN RFalse
         ELSE IF type = Str("text") /\ ~Contains("content", message) THEN RFalse
         ELSE IF type = Str("image")
              THEN IF ~Contains("source", message) THEN RFalse
                   ELSE IF Get(message, "source") \notin {Str("file")} THEN RFalse
                   ELSE IF Get(message, "source") = Str("file")
                           /\ ~Contains("path", message) THEN RFalse
                   ELSE RTrue
              ELSE RTrue

(***************************************************************************)
(* BatchMessageSender.validate_config                                      *)
(***************************************************************************)
\* One iteration of the loop over config['groups'].items().
ValidateGroup(group_config) ==
    LET has == AllKeysIn(<<"tags", "recipients">>, group_config) IN
    IF has # RTrue THEN has
    ELSE IF ~CanSubscript(group_config, "tags") THEN Raised
    ELSE IF ~IsList(Get(group_config, "tags")) THEN RFalse
    ELSE IF ~IsList(Get(group_config, "recipients")) THEN RFalse
    ELSE RTrue

\* One iteration of the loop over config['messages'].items().
ValidateMessageConfig(message_config) ==
    LET has == AllKeysIn(<<"tags", "content">>, message_config) IN
    IF has # RTrue THEN has
    ELSE IF ~CanSubscript(message_config, "tags") THEN Raised
    ELSE IF ~IsList(Get(message_config, "tags")) THEN RFalse
    ELSE IF ~IsList(Get(message_config, "content")) THEN RFalse
    ELSE IF /\ Contains("blacklist_tags", message_config)
            /\ ~IsList(Get(message_config, "blacklist_tags")) THEN RFalse
    ELSE LET content == Get(message_config, "content").l IN
         FirstFailure([i \in 1..Len(content) |-> validate_message(content[i])])

validate_config(config) ==
    LET has == AllKeysIn(<<"groups", "messages">>, config) IN
    IF has # RTrue THEN has
    ELSE IF ~CanSubscript(config, "groups") THEN Raised
    ELSE IF ~HasItems(Get(config, "groups")) THEN Raised
    ELSE LET groups == Get(config, "groups").items
             gs == FirstFailure([i \in 1..Len(groups) |-> ValidateGroup(groups[i][2])])
         IN
         IF gs # RTrue THEN gs
         ELSE IF ~HasItems(Get(config, "messages")) THEN Raised
         ELSE LET messages == Get(config, "messages").items IN
              FirstFailure([i \in 1..Len(messages) |->
                               ValidateMessageConfig(messages[i][2])])

(***************************************************************************)
(* BatchMessageSender.tags_match                                           *)
(***************************************************************************)
\* set(a_list)
SetOf(list) == Range(list.l)

\* Faulty variants of tags_match: one that ignores the blacklist, one that
\* asks for every message tag instead of one.
tags_match_no_blacklist(message_tags, group_tags, message_blacklist_tags) ==
    (SetOf(message_tags) \cap SetOf(group_tags)) # {}

tags_match_subset(message_tags, group_tags, message_blacklist_tags) ==
    LET message_tags_set == SetOf(message_tags)
        group_tags_set == SetOf(group_tags)
    IN  IF /\ Truthy(message_blacklist_tags)
           /\ (group_tags_set \cap SetOf(message_blacklist_tags)) # {}
        THEN FALSE
        ELSE message_tags_set \subseteq group_tags_set

tags_match(message_tags, group_tags, message_blacklist_tags) ==
    LET message_tags_set == SetOf(message_tags)
        group_tags_set == SetOf(group_tags)
    IN  IF /\ Truthy(message_blacklist_tags)
           /\ (group_tags_set \cap SetOf(message_blacklist_tags)) # {}
        THEN FALSE
        ELSE (message_tags_set \cap group_tags_set) # {}

(***************************************************************************)
(* Result mappings (Python dicts from a name to a value).                  *)
(***************************************************************************)
EmptyDict == <<>>
\* d[key] = value
Put(d, key, value) ==
    [x \in DOMAIN d \cup {key} |-> IF x = key THEN value ELSE d[x]]
\* d.update(e): the entries of e overwrite those of d.
Update(d, e) ==
    [x \in DOMAIN d \cup DOMAIN e |-> IF x \in DOMAIN e THEN e[x] ELSE d[x]]
\* {recipient: False for recipient in recipients}
AllFalse(recipients) == [r \in Range(recipients) |-> FALSE]

(***************************************************************************)
(* The configuration documents the runs are started on.                    *)
(***************************************************************************)
Group(tags, recipients) ==
    Dict(<< <<"tags", List(tags)>>, <<"recipients", List(recipients)>> >>)
Message(tags, content) ==
    Dict(<< <<"tags", List(tags)>>, <<"content", List(content)>> >>)
MessageBl(tags, blacklist_tags, content) ==
    Dict(<< <<"tags", List(tags)>>, <<"blacklist_tags", List(blacklist_tags)>>,
            <<"content", List(content)>> >>)
Text(body) == Dict(<< <<"type", Str("text")>>, <<"content", body>> >>)
ImageFile ==
    Dict(<< <<"type", Str("image")>>, <<"source", Str("file")>>,
            <<"path", Str("pic.png")>> >>)
ImageClipboard == Dict(<< <<"type", Str("image")>>, <<"source", Str("clipboard")>> >>)

TagPool == {Str("a"), Str("b")}
R1 == Str("Alice")
R2 == Str("Bob")

GroupNames == <<"g1", "g2", "g3", "g4">>
MessageNames == <<"m1", "m2", "m3", "m4">>

\* Two groups that share a recipient and no tag, and a group without
\* recipients that carries both tags.
GroupPool ==
    { Group(<<Str("a")>>, <<R1>>),
      Group(<<Str("b")>>, <<R1, R2>>),
      Group(<<Str("a"), Str("b")>>, <<>>) }

\* A message of one text, a message whose only text is empty, a message
\* whose last text is empty, a message with a blacklist, an image and a text,
\* and a message without content.
MessagePool ==
    { Message(<<Str("a")>>, <<Text(Str("hi"))>>),
      Message(<<Str("b")>>, <<Text(Str(""))>>),
      Message(<<Str("a"), Str("b")>>, <<Text(Str("hi")), Text(Str(""))>>),
      MessageBl(<<Str("a"), Str("b")>>, <<Str("b")>>, <<ImageFile, Text(Str("hi"))>>),
      MessageBl(<<Str("b")>>, <<>>, <<>>) }

\* A mapping document whose entries are named in declared order.
Named(names, entries) == Dict([i \in 1..Len(entries) |-> <<names[i], entries[i]>>])

Config(groups, messages) ==
    Dict(<< <<"groups", Named(GroupNames, groups)>>,
            <<"messages", Named(MessageNames, messages)>> >>)

ValidConfigs ==
    { Config(gs, ms) : gs \in SeqsUpTo(GroupPool, MaxGroups),
                       ms \in SeqsUpTo(MessagePool, MaxMessages) }

\* Content items that are not a legal item of the configuration document.
BadItems ==
    { None, Str("hi"), Dict(<<>>),
      Dict(<< <<"type", Str("video")>> >>),
      Dict(<< <<"type", Str("text")>> >>),
      Dict(<< <<"type", Str("image")>> >>),
      ImageClipboard,
      Dict(<< <<"type", Str("image")>>, <<"source", Str("file")>> >>),
      List(<<Str("type")>>) }

BadGroups ==
    { None, Str("tags"), List(<<Str("tags"), Str("recipients")>>),
      Dict(<< <<"tags", List(<<Str("a")>>)>> >>),
      Dict(<< <<"tags", Str("a")>>, <<"recipients", List(<<R1>>)>> >>),
      Dict(<< <<"tags", List(<<Str("a")>>)>>, <<"recipients", R1>> >>) }

BadMessages ==
    { None, Str("content"),
      Dict(<< <<"tags", List(<<Str("a")>>)>> >>),
      Dict(<< <<"tags", Str("a")>>, <<"content", List(<<Text(Str("hi"))>>)>> >>),
      Dict(<< <<"tags", List(<<Str("a")>>)>>, <<"content", Str("hi")>> >>),
      Dict(<< <<"tags", List(<<Str("a")>>)>>, <<"blacklist_tags", Str("b")>>,
              <<"content", List(<<Text(Str("hi"))>>)>> >>) }

GoodGroup == Group(<<Str("a")>>, <<R1>>)
GoodMessage == Message(<<Str("a")>>, <<Text(Str("hi"))>>)

\* Documents with a structural defect: at the top level, in a group entry, in
\* a message entry, or in the last content item of the last message only.
DefectiveDocuments ==
    { None, Str("x"), List(<<>>), List(<<Str("groups"), Str("messages")>>), Dict(<<>>),
      Dict(<< <<"groups", Named(GroupNames, <<GoodGroup>>)>> >>),
      Dict(<< <<"messages", Named(MessageNames, <<GoodMessage>>)>> >>),
      Dict(<< <<"groups", None>>, <<"messages", Named(MessageNames, <<GoodMessage>>)>> >>),
      Dict(<< <<"groups", List(<<>>)>>, <<"messages", Named(MessageNames, <<GoodMessage>>)>> >>),
      Dict(<< <<"groups", Named(GroupNames, <<GoodGroup>>)>>, <<"messages", None>> >>),
      Dict(<< <<"groups", Named(GroupNames, <<GoodGroup>>)>>, <<"messages", List(<<>>)>> >>) }
    \cup { Config(<<GoodGroup, g>>, <<GoodMessage>>) : g \in BadGroups }
    \cup { Config(<<GoodGroup>>, <<GoodMessage, m>>) : m \in BadMessages }
    \cup { Config(<<GoodGroup>>, <<GoodMessage, Message(<<Str("a")>>, <<Text(Str("hi")), item>>)>>) :
              item \in BadItems }

Documents == ValidConfigs \cup DefectiveDocuments

TagLists == {List(l) : l \in SeqsUpTo(TagPool, MaxTags)}

(***************************************************************************)
(* State.                                                                  *)
(***************************************************************************)
VARIABLES
    pc,               \* where the run under way stands
    tmArgs,           \* the arguments of a direct tags_match call
    matched,          \* what that call returned
    fileState,        \* the configuration file: "missing", "unparsable", "ok"
    config,           \* the document yaml.safe_load gives for the file
    valid,            \* the outcome of validate_config
    mi, gi, ci,       \* batch_send's place in messages, groups, content
    message_results,  \* batch_send's message_results
    results,          \* batch_send's results; the value it returns
    wc,               \* the collaborator call under way, or the last one
    sends,            \* the send_message calls made so far, as <<mi, gi, ci>>
    lastOut,          \* per message and recipient, what the latest send of the
                      \* message's last content item to a group listing the
                      \* recipient returned for the recipient
    clipboard,        \* what the system clipboard holds
    clip0,            \* what the clipboard held when the collaborator's
                      \* operation was called
    original,         \* send_clipboard_to_recipients' original_clipboard
    pastes            \* what was pasted into a chat so far, as
                      \* <<recipient, clipboard content>>

vars == <<pc, tmArgs, matched, fileState, config, valid, mi, gi, ci,
          message_results, results, wc, sends, lastOut, clipboard, clip0,
          original, pastes>>
clipVars == <<clipboard, clip0, original, pastes>>

\* A clipboard nothing was put on.
NoClip == [kind |-> "empty"]
NoArgs == [m |-> List(<<>>), g |-> List(<<>>), b |-> None]
NoCall == [op |-> "none", message |-> None, recipients |-> <<>>, idx |-> 0,
           tried |-> 0, entered |-> FALSE, results |-> EmptyDict]

(***************************************************************************)
(* tags_match called on its own.                                           *)
(***************************************************************************)
InitMatch ==
    /\ pc = "tm_start"
    /\ tmArgs \in [m : TagLists, g : TagLists, b : TagLists \cup {None}]
    /\ matched = FALSE
    /\ fileState = "ok" /\ config = None /\ valid = "none"
    /\ mi = 0 /\ gi = 0 /\ ci = 0
    /\ message_results = EmptyDict /\ results = EmptyDict
    /\ wc = NoCall /\ sends = <<>> /\ lastOut = EmptyDict
    /\ clipboard = NoClip /\ clip0 = NoClip /\ original = None /\ pastes = <<>>

CallTagsMatch ==
    /\ pc = "tm_start"
    /\ matched' = tags_match(tmArgs.m, tmArgs.g, tmArgs.b)
    /\ pc' = "tm_done"
    /\ UNCHANGED <<tmArgs, fileState, config, valid, mi, gi, ci, message_results,
                   results, wc, sends, lastOut>>
    /\ UNCHANGED clipVars

NextMatch == CallTagsMatch
SpecMatch == InitMatch /\ [][NextMatch]_vars

(***************************************************************************)
(* validate_config called on its own.                                      *)
(***************************************************************************)
InitValidate ==
    /\ pc = "v_start"
    /\ config \in Documents
    /\ tmArgs = NoArgs /\ matched = FALSE
    /\ fileState = "ok" /\ valid = "none"
    /\ mi = 0 /\ gi = 0 /\ ci = 0
    /\ message_results = EmptyDict /\ results = EmptyDict
    /\ wc = NoCall /\ sends = <<>> /\ lastOut = EmptyDict
    /\ clipboard = NoClip /\ clip0 = NoClip /\ original = None /\ pastes = <<>>

CallValidateConfig ==
    /\ pc = "v_start"
    /\ valid' = validate_config(config)
    /\ pc' = "v_done"
    /\ UNCHANGED <<tmArgs, matched, fileState, config, mi, gi, ci, message_results,
                   results, wc, sends, lastOut>>
    /\ UNCHANGED clipVars

NextValidate == CallValidateConfig
SpecValidate == InitValidate /\ [][NextValidate]_vars

(***************************************************************************)
(* WeChatMac: the two batch operations of the messaging collaborator.      *)
(***************************************************************************)
\* What _prepare_message can do: put the text on the clipboard, give up
\* after its timeout (False), or raise from the clipboard library.
PrepOutcomes == {"ok", "fail", "raise"}

\* What one turn of the per-recipient loop can do: find_chat found the chat
\* and the paste and enter keystrokes went through ("sent"), a keystroke
\* failed ("keyfail"), find_chat returned False ("nochat"), or find_chat
\* raised (activate_window failed, or the name is empty).
AttemptOutcomes == {"sent", "keyfail", "nochat", "raise"}

Returns(value) == [kind |-> "return", value |-> value]
Raises == [kind |-> "raise", value |-> EmptyDict]
Loops == [kind |-> "loop", value |-> EmptyDict]

\* send_messages_to_recipients up to its loop.
TextCallEntry(message, recipients, prep) ==
    IF ~Truthy(message) \/ Len(recipients) = 0 THEN Returns(EmptyDict)
    ELSE IF prep = "raise" THEN Raises
    ELSE IF prep = "fail" THEN Returns(AllFalse(recipients))
    ELSE Loops

\* send_clipboard_to_recipients up to its loop.
ClipboardCallEntry(recipients) ==
    IF Len(recipients) = 0 THEN Returns(EmptyDict) ELSE Loops

\* A faulty loop turn: a failure ends the loop instead of being recorded for
\* its recipient alone.
AfterAttempt_abort(call, out) ==
    IF out = "sent"
    THEN [call EXCEPT !.results = Put(@, call.recipients[call.idx], TRUE),
                      !.idx = @ + 1, !.tried = @ + 1]
    ELSE [call EXCEPT !.results = Put(@, call.recipients[call.idx], FALSE),
                      !.idx = Len(call.recipients) + 1, !.tried = @ + 1]

\* A faulty loop turn: a recipient whose attempt failed is tried a second
\* time before the loop moves on.
AfterAttempt_retry(call, out) ==
    IF out = "sent" \/ call.tried >= call.idx
    THEN [call EXCEPT !.results = Put(@, call.recipients[call.idx], out = "sent"),
                      !.idx = @ + 1, !.tried = @ + 1]
    ELSE [call EXCEPT !.results = Put(@, call.recipients[call.idx], FALSE),
                      !.tried = @ + 1]

\* One turn of the loop `for recipient in recipients` of either operation.
AfterAttempt(call, out) ==
    [call EXCEPT !.results = Put(@, call.recipients[call.idx], out = "sent"),
                 !.idx = @ + 1, !.tried = @ + 1]

Reverse(seq) == [i \in 1..Len(seq) |-> seq[Len(seq) + 1 - i]]

\* A faulty loop: the recipients are visited from the last to the first.
StartCall_reversed(op, message, recipients) ==
    [op |-> op, message |-> message, recipients |-> Reverse(recipients), idx |-> 1,
     tried |-> 0, entered |-> TRUE, results |-> EmptyDict]

\* The state of a call at the head of `for recipient in recipients`.
StartCall(op, message, recipients) ==
    [op |-> op, message |-> message, recipients |-> recipients, idx |-> 1,
     tried |-> 0, entered |-> TRUE, results |-> EmptyDict]
\* A call that returned without entering its loop.
ShortCall(op, message, recipients, value) ==
    [op |-> op, message |-> message, recipients |-> recipients, idx |-> 0,
     tried |-> 0, entered |-> FALSE, results |-> value]

Attempt ==
    /\ pc = "call"
    /\ wc.idx <= Len(wc.recipients)
    /\ \E out \in AttemptOutcomes : wc' = AfterAttempt(wc, out)
    /\ UNCHANGED <<pc, tmArgs, matched, fileState, config, valid, mi, gi, ci,
                   message_results, results, sends, lastOut>>
    /\ UNCHANGED clipVars

(***************************************************************************)
(* The collaborator's operations called on their own.                      *)
(***************************************************************************)
MessagePoolColl == {Str("hi"), Str(""), None}
RecipientLists == SeqsUpTo({R1, R2}, MaxRecipients)

InitColl ==
    /\ pc = "coll_start"
    /\ \E op \in {"text", "clipboard"}, message \in MessagePoolColl,
          recipients \in RecipientLists :
          /\ op = "clipboard" => message = None
          /\ wc = [NoCall EXCEPT !.op = op, !.message = message,
                                 !.recipients = recipients]
    /\ tmArgs = NoArgs /\ matched = FALSE
    /\ fileState = "ok" /\ config = None /\ valid = "none"
    /\ mi = 0 /\ gi = 0 /\ ci = 0
    /\ message_results = EmptyDict /\ results = EmptyDict
    /\ sends = <<>> /\ lastOut = EmptyDict
    /\ clipboard = NoClip /\ clip0 = NoClip /\ original = None /\ pastes = <<>>

CollCall ==
    /\ pc = "coll_start"
    /\ \E prep \in PrepOutcomes :
          LET e == IF wc.op = "text"
                   THEN TextCallEntry(wc.message, wc.recipients, prep)
                   ELSE ClipboardCallEntry(wc.recipients)
          IN  IF e.kind = "loop"
              THEN /\ wc' = StartCall(wc.op, wc.message, wc.recipients)
                   /\ pc' = "call"
              ELSE /\ wc' = ShortCall(wc.op, wc.message, wc.recipients, e.value)
                   /\ pc' = IF e.kind = "raise" THEN "coll_raised" ELSE "coll_done"
    /\ UNCHANGED <<tmArgs, matched, fileState, config, valid, mi, gi, ci,
                   message_results, results, sends, lastOut>>
    /\ UNCHANGED clipVars

CollReturn ==
    /\ pc = "call"
    /\ wc.idx > Len(wc.recipients)
    /\ pc' = "coll_done"
    /\ UNCHANGED <<tmArgs, matched, fileState, config, valid, mi, gi, ci,
                   message_results, results, wc, sends, lastOut>>
    /\ UNCHANGED clipVars

NextColl == CollCall \/ Attempt \/ CollReturn
SpecColl == InitColl /\ [][NextColl]_vars

(***************************************************************************)
(* The collaborator's two operations with the system clipboard.            *)
(***************************************************************************)
\* What the pasteboard can hold: nothing, a string, image data, a string
\* together with image data, or data of a type _get_clipboard_content does
\* not read.
ClipText(text) == [kind |-> "text", text |-> text]
ClipImage == [kind |-> "image"]
ClipTextImage(text) == [kind |-> "text+image", text |-> text]
ClipOther == [kind |-> "other"]

\* _get_clipboard_content: the (content_type, content) pair of the first
\* type it knows, the string first; None for an empty pasteboard, for a type
\* it does not know and when the pasteboard cannot be read.
get_clipboard_content(clip, readOk) ==
    IF ~readOk THEN None
    ELSE CASE clip.kind = "text"       -> ClipText(clip.text)
           [] clip.kind = "text+image" -> ClipText(clip.text)
           [] clip.kind = "image"      -> ClipImage
           [] OTHER                    -> None

\* What a write of the pasteboard can do: put the content there, clear the
\* pasteboard and fail to put the content (the result is logged only), or
\* raise before the pasteboard is touched (the handler of line 473 reads
\* content_type, unbound when `import AppKit` raised).
WriteOutcomes == {"ok", "rejected", "raise"}

\* _set_clipboard_content: the clipboard after the call, and whether the
\* call raised.
set_clipboard_content(content, clip, out) ==
    IF content = None THEN [clip |-> clip, raised |-> FALSE]
    ELSE CASE out = "ok"       -> [clip |-> content, raised |-> FALSE]
           [] out = "rejected" -> [clip |-> NoClip, raised |-> FALSE]
           [] out = "raise"    -> [clip |-> clip, raised |-> TRUE]

\* _search_contact: the old content is read, the name is copied, the three
\* keystrokes are sent, and `finally` writes the old content back.
search_contact(contact_name, clip, readOk, copyOk, keysOk, writeOut) ==
    LET old_clipboard == get_clipboard_content(clip, readOk)
        copied == IF copyOk THEN ClipText(contact_name) ELSE clip
        restored == set_clipboard_content(old_clipboard, copied, writeOut)
    IN  [clip |-> restored.clip,
         ret |-> IF ~copyOk \/ restored.raised THEN Raised
                 ELSE IF keysOk THEN RTrue ELSE RFalse]

\* find_chat: activate_window, then _search_contact.
find_chat(chat_name, clip, activateOk, readOk, copyOk, keysOk, writeOut) ==
    IF chat_name = "" \/ ~activateOk THEN [clip |-> clip, ret |-> Raised]
    ELSE search_contact(chat_name, clip, readOk, copyOk, keysOk, writeOut)

\* f"search_{recipient}_{now}"
TempText(recipient) == "search_" \o recipient

\* The clipboards a call can find.
InitialClips ==
    {NoClip, ClipText("note"), ClipImage, ClipTextImage("note"), ClipOther}

InitClip ==
    /\ pc = "clip_start"
    /\ \E op \in {"text", "clipboard"}, recipients \in RecipientLists :
          wc = [NoCall EXCEPT !.op = op, !.recipients = recipients,
                              !.message = IF op = "text" THEN Str("hi") ELSE None]
    /\ clipboard \in InitialClips
    /\ clip0 = clipboard
    /\ original = None /\ pastes = <<>>
    /\ tmArgs = NoArgs /\ matched = FALSE
    /\ fileState = "ok" /\ config = None /\ valid = "none"
    /\ mi = 0 /\ gi = 0 /\ ci = 0
    /\ message_results = EmptyDict /\ results = EmptyDict
    /\ sends = <<>> /\ lastOut = EmptyDict

\* send_messages_to_recipients, lines 353-362: the message is put on the
\* clipboard by _prepare_message.
TextCall ==
    /\ pc = "clip_start" /\ wc.op = "text"
    /\ \E prep \in PrepOutcomes :
       \E e \in {TextCallEntry(wc.message, wc.recipients, prep)} :
          IF e.kind = "loop"
          THEN /\ wc' = StartCall(wc.op, wc.message, wc.recipients)
               /\ clipboard' = ClipText(wc.message.s)
               /\ pc' = "clip_loop"
          ELSE /\ wc' = ShortCall(wc.op, wc.message, wc.recipients, e.value)
               \* a _prepare_message that gave up or raised leaves the
               \* clipboard as it was, cleared, or holding the message
               /\ clipboard' \in IF wc.recipients = <<>> THEN {clipboard}
                                  ELSE {clipboard, ClipText(""), ClipText(wc.message.s)}
               /\ pc' = IF e.kind = "raise" THEN "clip_raised" ELSE "clip_done"
    /\ UNCHANGED <<tmArgs, matched, fileState, config, valid, mi, gi, ci,
                   message_results, results, sends, lastOut, clip0, original, pastes>>

\* One turn of the loop of send_messages_to_recipients, lines 364-377.
TextTurn ==
    /\ pc = "clip_loop" /\ wc.op = "text"
    /\ wc.idx <= Len(wc.recipients)
    /\ \E activateOk, readOk, copyOk, keysOk, pasteOk, returnOk \in BOOLEAN,
          writeOut \in WriteOutcomes :
       \E found \in {find_chat(wc.recipients[wc.idx].s, clipboard, activateOk,
                                readOk, copyOk, keysOk, writeOut)} :
          /\ clipboard' = found.clip
          /\ IF found.ret = RTrue
             \* _paste_and_send: Command+V, then the return key
             THEN /\ pastes' = IF pasteOk
                               THEN Append(pastes, <<wc.recipients[wc.idx], found.clip>>)
                               ELSE pastes
                  /\ wc' = AfterAttempt(wc, IF pasteOk /\ returnOk
                                            THEN "sent" ELSE "keyfail")
             ELSE /\ pastes' = pastes
                  /\ wc' = AfterAttempt(wc, IF found.ret = Raised
                                            THEN "raise" ELSE "nochat")
    /\ UNCHANGED <<pc, tmArgs, matched, fileState, config, valid, mi, gi, ci,
                   message_results, results, sends, lastOut, clip0, original>>

\* send_clipboard_to_recipients, lines 581-590: the content of the
\* clipboard is read and kept.
ClipboardCall ==
    /\ pc = "clip_start" /\ wc.op = "clipboard"
    /\ IF ClipboardCallEntry(wc.recipients).kind = "loop"
       THEN /\ \E readOk \in BOOLEAN :
                  original' = get_clipboard_content(clipboard, readOk)
            /\ wc' = StartCall(wc.op, wc.message, wc.recipients)
            /\ pc' = "clip_loop"
       ELSE /\ wc' = ShortCall(wc.op, wc.message, wc.recipients, EmptyDict)
            /\ pc' = "clip_done"
            /\ UNCHANGED original
    /\ UNCHANGED <<tmArgs, matched, fileState, config, valid, mi, gi, ci,
                   message_results, results, sends, lastOut, clipboard, clip0, pastes>>

\* One turn of the loop of send_clipboard_to_recipients, lines 592-615.
ClipboardTurn ==
    /\ pc = "clip_loop" /\ wc.op = "clipboard"
    /\ wc.idx <= Len(wc.recipients)
    /\ \E activateOk, readOk, copyOk, keysOk, pasteOk, returnOk \in BOOLEAN,
          tempOut, writeOut, backOut \in WriteOutcomes :
       \E temp \in {set_clipboard_content(ClipText(TempText(wc.recipients[wc.idx].s)),
                                           clipboard, tempOut)} :
       \E found \in {IF temp.raised THEN [clip |-> temp.clip, ret |-> Raised]
                      ELSE find_chat(wc.recipients[wc.idx].s, temp.clip, activateOk,
                                     readOk, copyOk, keysOk, writeOut)} :
       \E back \in {IF found.ret = RTrue
                     THEN set_clipboard_content(original, found.clip, backOut)
                     ELSE [clip |-> found.clip, raised |-> FALSE]} :
          /\ clipboard' = back.clip
          /\ IF found.ret = RTrue /\ ~back.raised
             \* send_clipboard_content: Command+V, its result not looked
             \* at, then the return key
             THEN /\ pastes' = IF pasteOk
                               THEN Append(pastes, <<wc.recipients[wc.idx], back.clip>>)
                               ELSE pastes
                  /\ wc' = AfterAttempt(wc, IF returnOk THEN "sent" ELSE "keyfail")
             ELSE /\ pastes' = pastes
                  /\ wc' = AfterAttempt(wc, IF found.ret = RFalse
                                            THEN "nochat" ELSE "raise")
    /\ UNCHANGED <<pc, tmArgs, matched, fileState, config, valid, mi, gi, ci,
                   message_results, results, sends, lastOut, clip0, original>>

\* The loop is over: the results are returned.
ClipReturn ==
    /\ pc = "clip_loop"
    /\ wc.idx > Len(wc.recipients)
    /\ pc' = "clip_done"
    /\ UNCHANGED <<tmArgs, matched, fileState, config, valid, mi, gi, ci,
                   message_results, results, wc, sends, lastOut>>
    /\ UNCHANGED clipVars

NextClip == TextCall \/ TextTurn \/ ClipboardCall \/ ClipboardTurn \/ ClipReturn
SpecClip == InitClip /\ [][NextClip]_vars

(***************************************************************************)
(* BatchMessageSender.send_message up to the collaborator's loop.          *)
(***************************************************************************)
\* The operations of WeChatMac that send to a list of recipients:
\* send_messages_to_recipients ("text") and send_clipboard_to_recipients
\* ("clipboard").  The class defines no send_image_to_recipients.
WeChatMacOperations == {"text", "clipboard"}

\* The operation send_message asks of self.wechat for an item that passed
\* validate_message: lines 102, 107 and 115.
CalledOperation(message) ==
    IF Get(message, "type") = Str("text") THEN "text"
    ELSE IF Get(message, "source") = Str("clipboard") THEN "clipboard"
    ELSE "image"

send_message_entry(message, recipients, prep) ==
    LET v == validate_message(message) IN
    IF v = Raised THEN Raises
    ELSE IF v = RFalse THEN Returns(AllFalse(recipients))
    \* the AttributeError of an operation WeChatMac does not have is caught
    \* by except Exception
    ELSE IF CalledOperation(message) \notin WeChatMacOperations
         THEN Returns(AllFalse(recipients))
    ELSE IF CalledOperation(message) = "text"
         THEN LET e == TextCallEntry(Get(message, "content"), recipients, prep) IN
              \* except Exception: every recipient False
              IF e.kind = "raise" THEN Returns(AllFalse(recipients)) ELSE e
         ELSE ClipboardCallEntry(recipients)

(***************************************************************************)
(* BatchMessageSender.batch_send                                           *)
(***************************************************************************)
Groups(cfg) == Get(cfg, "groups").items
Messages(cfg) == Get(cfg, "messages").items
GroupTags(cfg, g) == Get(Groups(cfg)[g][2], "tags")
Recipients(cfg, g) == Get(Groups(cfg)[g][2], "recipients").l
MessageName(cfg, m) == Messages(cfg)[m][1]
MessageTags(cfg, m) == Get(Messages(cfg)[m][2], "tags")
\* message_config.get('blacklist_tags', [])
BlacklistTags(cfg, m) == GetOr(Messages(cfg)[m][2], "blacklist_tags", List(<<>>))
Content(cfg, m) == Get(Messages(cfg)[m][2], "content").l

\* The test of line 151 for message m and group g.
Matches(cfg, m, g) ==
    tags_match(MessageTags(cfg, m), GroupTags(cfg, g), BlacklistTags(cfg, m))

\* A faulty store: a message no group matched is left out of the result.
StoreMessageResult_skip_empty(res, name, message_res) ==
    IF DOMAIN message_res = {} THEN res ELSE Put(res, name, message_res)

\* results[message_name] = message_results
StoreMessageResult(res, name, message_res) == Put(res, name, message_res)

AsText(b) == IF b THEN "True" ELSE "False"

\* What a send_message call of message `name` returned for each recipient
\* it was given, kept when the item sent is the message's last one.
NoteOutcome(last, name, isLastItem, recipients, ret) ==
    IF ~isLastItem THEN last
    ELSE Put(last, name,
             Update(IF name \in DOMAIN last THEN last[name] ELSE EmptyDict,
                    [r \in Range(recipients) |->
                        IF r \in DOMAIN ret THEN AsText(ret[r]) ELSE "missing"]))

Init ==
    /\ pc = "start"
    /\ \/ fileState = "ok" /\ config \in Documents
       \/ fileState \in {"missing", "unparsable"} /\ config = None
    /\ tmArgs = NoArgs /\ matched = FALSE
    /\ valid = "none"
    /\ mi = 0 /\ gi = 0 /\ ci = 0
    /\ message_results = EmptyDict /\ results = EmptyDict
    /\ wc = NoCall /\ sends = <<>> /\ lastOut = EmptyDict
    /\ clipboard = NoClip /\ clip0 = NoClip /\ original = None /\ pastes = <<>>

\* Lines 125-140: the file is looked for, loaded and validated.
BatchSend ==
    /\ pc = "start"
    /\ IF fileState # "ok"
       THEN /\ pc' = "returned"
            /\ UNCHANGED <<valid, mi>>
       ELSE /\ valid' = validate_config(config)
            /\ pc' = CASE valid' = Raised -> "raised"
                       [] valid' = RFalse -> "returned"
                       [] valid' = RTrue -> "message"
            /\ mi' = IF valid' = RTrue THEN 1 ELSE mi
    /\ results' = EmptyDict
    /\ UNCHANGED <<tmArgs, matched, fileState, config, gi, ci, message_results,
                   wc, sends, lastOut>>
    /\ UNCHANGED clipVars

\* Line 143: the head of the loop over the messages; line 158 after it.
ForMessage ==
    /\ pc = "message"
    /\ IF mi > Len(Messages(config))
       THEN /\ pc' = "returned"
            /\ UNCHANGED <<message_results, gi>>
       ELSE /\ message_results' = EmptyDict
            /\ gi' = 1
            /\ pc' = "group"
    /\ UNCHANGED <<tmArgs, matched, fileState, config, valid, mi, ci, results,
                   wc, sends, lastOut>>
    /\ UNCHANGED clipVars

\* Lines 149-151: the head of the loop over the groups; line 156 after it.
ForGroup ==
    /\ pc = "group"
    /\ IF gi > Len(Groups(config))
       THEN /\ results' = StoreMessageResult(results, MessageName(config, mi),
                                             message_results)
            /\ mi' = mi + 1
            /\ pc' = "message"
            /\ UNCHANGED <<gi, ci>>
       ELSE IF Matches(config, mi, gi)
       THEN /\ ci' = 1
            /\ pc' = "item"
            /\ UNCHANGED <<results, mi, gi>>
       ELSE /\ gi' = gi + 1
            /\ UNCHANGED <<results, mi, ci, pc>>
    /\ UNCHANGED <<tmArgs, matched, fileState, config, valid, message_results,
                   wc, sends, lastOut>>
    /\ UNCHANGED clipVars

\* Lines 152-154: the head of the loop over the content items, and the call
\* of send_message up to the collaborator's per-recipient loop.
ForItem ==
    /\ pc = "item"
    /\ IF ci > Len(Content(config, mi))
       THEN /\ gi' = gi + 1
            /\ pc' = "group"
            /\ UNCHANGED <<ci, message_results, wc, sends, lastOut>>
       ELSE \E prep \in PrepOutcomes :
            \E message \in {Content(config, mi)[ci]},
               recipients \in {Recipients(config, gi)} :
            \E e \in {send_message_entry(message, recipients, prep)},
               op \in {IF validate_message(message) = RTrue
                        THEN CalledOperation(message) ELSE "none"},
               body \in {GetOr(message, "content", None)} :
                /\ sends' = Append(sends, <<mi, gi, ci>>)
                /\ IF e.kind = "loop"
                   THEN /\ wc' = StartCall(op, body, recipients)
                        /\ pc' = "call"
                        /\ UNCHANGED <<ci, message_results, lastOut>>
                   ELSE /\ wc' = ShortCall(op, body, recipients, e.value)
                        /\ IF e.kind = "raise"
                           THEN /\ pc' = "raised"
                                /\ UNCHANGED <<ci, message_results, lastOut>>
                           ELSE /\ message_results' = Update(message_results, e.value)
                                /\ lastOut' = NoteOutcome(lastOut, MessageName(config, mi),
                                                  ci = Len(Content(config, mi)),
                                                  recipients, e.value)
                                /\ ci' = ci + 1
                                /\ pc' = "item"
                /\ UNCHANGED gi
    /\ UNCHANGED <<tmArgs, matched, fileState, config, valid, mi, results>>
    /\ UNCHANGED clipVars

\* The collaborator's loop is over: send_message returns its mapping and
\* line 154 merges it.
SendMessageReturn ==
    /\ pc = "call"
    /\ wc.idx > Len(wc.recipients)
    /\ message_results' = Update(message_results, wc.results)
    /\ lastOut' = NoteOutcome(lastOut, MessageName(config, mi),
                              ci = Len(Content(config, mi)), wc.recipients, wc.results)
    /\ ci' = ci + 1
    /\ pc' = "item"
    /\ UNCHANGED <<tmArgs, matched, fileState, config, valid, mi, gi, results,
                   wc, sends>>
    /\ UNCHANGED clipVars

Next == BatchSend \/ ForMessage \/ ForGroup \/ ForItem \/ Attempt \/ SendMessageReturn
Spec == Init /\ [][Next]_vars
\* The run is one thread of one process: it takes its next step whenever it
\* has one.
FairSpec == Spec /\ WF_vars(Next)

(***************************************************************************)
(* Properties.                                                             *)
(***************************************************************************)
MessageIdx == 1..Len(Messages(config))
GroupIdx == 1..Len(Groups(config))
\* batch_send returned after a successful validation.
Completed == pc = "returned" /\ fileState = "ok" /\ valid = RTrue

\* C1: blacklist precedence.  When the group tags and the blacklist tags
\* share a tag, tags_match returns false, whether or not the message tags
\* and the group tags share one.
C1_BlacklistPrecedence ==
    (/\ pc = "tm_done"
     /\ tmArgs.b # None
     /\ (SetOf(tmArgs.g) \cap SetOf(tmArgs.b)) # {})
    => matched = FALSE

C1_Witness ==
    /\ pc = "tm_done"
    /\ tmArgs.b # None
    /\ (SetOf(tmArgs.g) \cap SetOf(tmArgs.b)) # {}
    /\ (SetOf(tmArgs.m) \cap SetOf(tmArgs.g)) # {}
    /\ matched = FALSE

\* C2: tag intersection.  With an empty or absent blacklist tags_match
\* returns true exactly when the message tags and the group tags share a
\* tag; and a message without tags matches no group.
C2_TagIntersection ==
    pc = "tm_done" =>
        /\ (tmArgs.b = None \/ tmArgs.b = List(<<>>))
              => (matched <=> (SetOf(tmArgs.m) \cap SetOf(tmArgs.g)) # {})
        /\ SetOf(tmArgs.m) = {} => matched = FALSE

C2_Witness ==
    /\ pc = "tm_done"
    /\ tmArgs.b = None
    /\ (SetOf(tmArgs.m) \cap SetOf(tmArgs.g)) # {}
    /\ ~(SetOf(tmArgs.m) \subseteq SetOf(tmArgs.g))
    /\ matched = TRUE

\* C3: validation totality.  validate_config raises for no document, and
\* gives false for every document with a structural defect.
C3_ValidationTotal ==
    pc = "v_done" =>
        /\ valid # Raised
        /\ config \in DefectiveDocuments => valid = RFalse

\* C4: batch_send raises for no configuration file and no behaviour of the
\* collaborator: every run ends by returning its result mapping.
C4_BatchSendNeverRaises == pc # "raised"

\* C5: fail fast, fail whole.  On a structurally defective configuration
\* batch_send returns the empty result and calls send_message, hence the
\* collaborator, at no point of the run; and no call is made before the whole
\* configuration has been validated.
C5_FailFastFailWhole ==
    /\ sends # <<>> => valid = RTrue
    /\ (fileState = "ok" /\ config \in DefectiveDocuments /\ pc # "start")
          => (pc = "returned" /\ results = EmptyDict /\ sends = <<>>)

\* C6: result completeness.  When batch_send has returned on a valid
\* configuration, every recipient of every group that tags_match accepts
\* for a message is a key of that message's result mapping.
C6_ResultCompleteness ==
    Completed =>
        \A m \in MessageIdx, g \in GroupIdx :
            Matches(config, m, g) =>
                Range(Recipients(config, g)) \subseteq DOMAIN results[MessageName(config, m)]

\* C7: last write wins.  When batch_send has returned, the value recorded
\* for a recipient of a message is what the send of the message's last
\* content item to the last matching group listing the recipient returned
\* for that recipient; no earlier outcome survives.
C7_LastWriteWins ==
    Completed =>
        \A m \in MessageIdx :
            LET name == MessageName(config, m) IN
            \A r \in DOMAIN results[name] :
                /\ name \in DOMAIN lastOut
                /\ r \in DOMAIN lastOut[name]
                /\ lastOut[name][r] = AsText(results[name][r])

\* C8: complete result.  When batch_send has returned on a valid
\* configuration, the keys of the result are exactly the declared message
\* names, and a message no group matches has the empty mapping.
C8_ResultKeys ==
    Completed =>
        /\ DOMAIN results = {MessageName(config, m) : m \in MessageIdx}
        /\ \A m \in MessageIdx :
              (\A g \in GroupIdx : ~Matches(config, m, g))
                  => results[MessageName(config, m)] = EmptyDict

\* A run over two messages, the first one shut out of a group by its
\* blacklist alone and so matching no group, the second one delivered.
C8_Witness ==
    /\ Completed
    /\ Len(Messages(config)) = 2
    /\ Len(Groups(config)) >= 1
    /\ \A g \in GroupIdx :
          /\ ~Matches(config, 1, g)
          /\ (SetOf(MessageTags(config, 1)) \cap SetOf(GroupTags(config, g))) # {}
    /\ results[MessageName(config, 1)] = EmptyDict
    /\ DOMAIN results[MessageName(config, 2)] # {}

\* C9: collaborator completeness.  Each of send_messages_to_recipients and
\* send_clipboard_to_recipients returns, and the keys of the mapping it
\* returns are exactly the recipients it was given.
C9_CollaboratorComplete ==
    /\ pc # "coll_raised"
    /\ pc = "coll_done" => DOMAIN wc.results = Range(wc.recipients)

\* Every send_message call a run over the configuration has to make.
ExpectedSends(cfg) ==
    UNION { { <<m, g, i>> : i \in 1..Len(Content(cfg, m)) } :
               <<m, g>> \in { mg \in (1..Len(Messages(cfg))) \X (1..Len(Groups(cfg))) :
                                 Matches(cfg, mg[1], mg[2]) } }

\* Where a dispatching run stands: message, group, content item, recipient.
Position ==
    <<mi,
      IF pc \in {"group", "item", "call"} THEN gi ELSE 0,
      IF pc \in {"item", "call"} THEN ci ELSE 0,
      IF pc = "call" THEN wc.idx ELSE 0,
      IF pc = "returned" THEN 1 ELSE 0>>
\* The places a dispatching run can stand at are finitely many.
InBounds ==
    /\ pc \in {"message", "group", "item", "call"}
    /\ mi \in 1..(Len(Messages(config)) + 1)
    /\ pc # "message" => /\ mi <= Len(Messages(config))
                         /\ gi \in 1..(Len(Groups(config)) + 1)
    /\ pc \in {"item", "call"} => /\ gi <= Len(Groups(config))
                                  /\ ci \in 1..(Len(Content(config, mi)) + 1)
    /\ pc = "call" => /\ ci <= Len(Content(config, mi))
                      /\ wc.idx \in 1..(Len(wc.recipients) + 1)
\* Lexicographic order of positions.
Before(p, q) ==
    \E i \in 1..Len(p) : p[i] < q[i] /\ \A j \in 1..(i - 1) : p[j] = q[j]

\* C10: delivery failure is local.  A collaborator loop that was entered
\* makes one attempt for every recipient it was given whatever the
\* attempts' outcomes; a run that dispatches makes the send_message call of
\* every content item of every matching group of every message; and a run
\* that starts dispatching reaches the return of batch_send: it has a next
\* step until it returns, and each step moves it forward in the finite order
\* of its positions.
C10_FailureIsLocal ==
    /\ [](pc = "call" /\ wc.idx > Len(wc.recipients)
             => wc.tried = Len(wc.recipients))
    /\ [](Completed => Range(sends) = ExpectedSends(config))
    /\ [](valid = RTrue /\ pc # "returned" => InBounds /\ ENABLED Next)
    /\ [][valid = RTrue => Before(Position, Position')]_vars

\* A run in which the first recipient of a group failed and the second was
\* served, and a later message was delivered after that.
C10_Witness ==
    /\ Completed
    /\ Len(Messages(config)) = 2
    /\ \E name \in DOMAIN results :
          /\ name = MessageName(config, 1)
          /\ DOMAIN results[name] = {R1, R2}
          /\ results[name][R1] = FALSE
          /\ results[name][R2] = TRUE
    /\ \E r \in DOMAIN results[MessageName(config, 2)] :
          results[MessageName(config, 2)][r] = TRUE

\* A step of the run that makes an attempt for a recipient.
MakesAttempt == pc = "call" /\ pc' = "call" /\ wc'.tried = wc.tried + 1

\* C11: declared-order sequential dispatch.  Every attempt of a run is made
\* for the recipient that stands at the run's place (message, group, content
\* item, recipient) in the configuration's declared order, the group being
\* one the message matches; the attempt moves the run to the next place, and
\* no step of the run takes it back to an earlier message, group, item or
\* recipient: the attempts are made one after the other in lexicographic
\* order.
C11_DeclaredOrder ==
    /\ [][(valid = RTrue /\ MakesAttempt) =>
              /\ mi \in MessageIdx /\ gi \in GroupIdx
              /\ Matches(config, mi, gi)
              /\ ci \in 1..Len(Content(config, mi))
              /\ wc.idx \in 1..Len(Recipients(config, gi))
              /\ wc.recipients[wc.idx] = Recipients(config, gi)[wc.idx]
              /\ DOMAIN wc'.results = DOMAIN wc.results \cup {Recipients(config, gi)[wc.idx]}
              /\ <<mi', gi', ci'>> = <<mi, gi, ci>>
              /\ wc'.idx = wc.idx + 1]_vars
    /\ [][valid = RTrue =>
              /\ mi' >= mi
              /\ (mi' = mi /\ pc # "message" /\ pc' # "message") => gi' >= gi
              /\ (mi' = mi /\ gi' = gi /\ pc \in {"item", "call"}
                     /\ pc' \in {"item", "call"}) => ci' >= ci
              /\ (pc = "call" /\ pc' = "call") => wc'.idx >= wc.idx]_vars

\* The second recipient of the second group has had the attempt of the
\* second message's first content item, after the first group had its own.
C11_Witness ==
    /\ pc = "call" /\ valid = RTrue
    /\ mi = 2 /\ gi = 2 /\ ci = 1
    /\ wc.idx = 3 /\ wc.tried = 2
    /\ Matches(config, 2, 1)

\* C14: no retry.  A collaborator call has made exactly one attempt for
\* each recipient its loop has passed and none for the others, whatever the
\* attempts' outcomes, and no (message, group, content item) is sent a second
\* time in a run.
C14_NoRetry ==
    /\ wc.entered => wc.tried = wc.idx - 1
    /\ ~wc.entered => wc.tried = 0
    /\ wc.tried <= Len(wc.recipients)
    /\ \A i, j \in 1..Len(sends) : sends[i] = sends[j] => i = j

\* A call whose first attempt failed has moved on and served its second
\* recipient.
C14_Witness ==
    /\ pc = "call" /\ valid = RTrue
    /\ wc.tried = 2 /\ wc.idx = 3
    /\ wc.results[wc.recipients[1]] = FALSE
    /\ wc.results[wc.recipients[2]] = TRUE
\* A configuration whose second message ends with a clipboard-sourced image
\* and matches the one group.
ClipboardDocument ==
    Config(<<GoodGroup>>,
           <<GoodMessage, Message(<<Str("a")>>, <<Text(Str("hi")), ImageClipboard>>)>>)

\* C12: clipboard-sourced image delivery.  A configuration with a
\* clipboard-sourced image item is accepted, and the item is delivered to the
\* recipients of the matching group through send_clipboard_to_recipients.
C12_ClipboardImageDelivered ==
    (fileState = "ok" /\ config = ClipboardDocument) =>
        /\ pc # "start" => valid = RTrue
        /\ (pc = "call" /\ <<mi, gi, ci>> = <<2, 1, 2>>)
              => (wc.op = "clipboard" /\ wc.recipients = Recipients(config, 1))
        /\ pc = "returned" => <<2, 1, 2>> \in Range(sends)

\* The content item of the latest send_message call.
LastItem == Content(config, sends[Len(sends)][1])[sends[Len(sends)][3]]

\* C13: delegation of every valid item.  Every send_message call for an item
\* that passes validate_message asks the collaborator for an operation it
\* provides, a text item for send_messages_to_recipients and an image item
\* for an image operation.
C13_DelegatesEveryValidItem ==
    (valid = RTrue /\ sends # <<>> /\ validate_message(LastItem) = RTrue) =>
        /\ wc.op = CalledOperation(LastItem)
        /\ wc.op \in WeChatMacOperations
\* C15: a text send keeps the message on the clipboard.  Whatever
\* send_messages_to_recipients pastes into a chat is the message text it
\* prepared, for every recipient and every outcome of the clipboard reads
\* and writes of the contact search; the contact name is never pasted.
C15_TextSendPastesMessage ==
    wc.op = "text" =>
        \A k \in 1..Len(pastes) :
            /\ pastes[k][2] = ClipText(wc.message.s)
            /\ pastes[k][2] # ClipText(pastes[k][1].s)

\* C16: a clipboard send preserves the caller's clipboard.  Whatever
\* send_clipboard_to_recipients pastes into a chat is the content the
\* clipboard held when the call began, never the search text or the contact
\* name, and when the call has returned the clipboard holds that content
\* again, for every outcome of find_chat and of the clipboard read.
C16_ClipboardSendPreserves ==
    wc.op = "clipboard" =>
        /\ \A k \in 1..Len(pastes) : pastes[k][2] = clip0
        /\ pc = "clip_done" => clipboard = clip0
====
